---- MODULE Spec2Model ----
(***************************************************************************)
(* The data-preparation pipeline of demo_dataset.py: a price frame is      *)
(* fetched, de-duplicated, forward-filled, enriched with SMA/EMA/RSI/MACD  *)
(* and the daily return, exported, sanitised of negative values, filtered  *)
(* of incomplete rows, exported again and scanned for outliers.            *)
(*                                                                         *)
(* A frame is a sequence of records, one per row, whose fields are the     *)
(* columns; the Date field is the index until reset_index makes it a       *)
(* column.  Column values are float64, computed as the hardware computes   *)
(* them: every operation rounds its exact result to 53 significant bits.   *)
(***************************************************************************)
EXTENDS Integers, Sequences, FiniteSets, TLC

VARIABLES
    pc,           \* the statement the script executes next
    data,         \* the frame bound to `data`
    curated_csv,  \* the frame handed to to_csv("apple_curated_dataset.csv")
    clean_csv,    \* the frame handed to to_csv("apple_curated_dataset_clean.csv")
    outliers,     \* the frame bound to `outliers`
    warnings,     \* the columns a negative-value warning was printed for
    history       \* history variable: the frame ticker.history returned

vars == <<pc, data, curated_csv, clean_csv, outliers, warnings, history>>

\* body with v naming the value of x, which is computed once
With(x, F(_)) == CHOOSE r \in {F(v) : v \in {x}} : TRUE

With2(x, y, F(_, _)) == CHOOSE r \in {F(u, v) : u \in {x}, v \in {y}} : TRUE

(***************************************************************************)
(* Natural numbers of any width: a sequence of limbs, least significant    *)
(* first, each in 0..LimbBase-1, the last one non-zero; <<>> is zero.      *)
(***************************************************************************)
LimbBits == 15

LimbBase == 32768

Max(a, b) == IF a >= b THEN a ELSE b

Min(a, b) == IF a <= b THEN a ELSE b

Abs(n) == IF n < 0 THEN -n ELSE n

Sign(n) == IF n < 0 THEN -1 ELSE IF n > 0 THEN 1 ELSE 0

\* limb i of a, zero beyond its length
Limb(a, i) == IF i >= 1 /\ i <= Len(a) THEN a[i] ELSE 0

\* a without its leading zero limbs
BigTrim(a) ==
    SubSeq(a, 1, Cardinality({i \in 1..Len(a) : \E k \in i..Len(a) : a[k] # 0}))

\* the limbs of 0 <= n < 2^31
BigFromNat(n) ==
    BigTrim(<<n % LimbBase, (n \div LimbBase) % LimbBase, n \div (LimbBase * LimbBase)>>)

\* a + b: the carry into limb i comes from a limb below that overflows,
\* through limbs that are full
BigAdd(a, b) ==
    With([i \in 1..Max(Len(a), Len(b)) |-> Limb(a, i) + Limb(b, i)] \o <<0>>, LAMBDA t :
    BigTrim([i \in 1..Len(t) |->
                (t[i] + (IF \E j \in 1..(i - 1) :
                               /\ t[j] >= LimbBase
                               /\ \A k \in (j + 1)..(i - 1) : t[k] = LimbBase - 1
                         THEN 1 ELSE 0)) % LimbBase] \o <<>>))

\* a - b for a >= b: the borrow into limb i comes from a limb below that
\* falls short, through limbs that are level
BigSub(a, b) ==
    With([i \in 1..Len(a) |-> a[i] - Limb(b, i)] \o <<>>, LAMBDA t :
    BigTrim([i \in 1..Len(t) |->
                (t[i] + LimbBase
                 - (IF \E j \in 1..(i - 1) :
                          /\ t[j] < 0
                          /\ \A k \in (j + 1)..(i - 1) : t[k] = 0
                    THEN 1 ELSE 0)) % LimbBase] \o <<>>))

\* -1, 0 or 1 as a is below, equal to or above b
BigCmp(a, b) ==
    IF Len(a) < Len(b) THEN -1
    ELSE IF Len(a) > Len(b) THEN 1
    ELSE IF a = b THEN 0
    ELSE With(CHOOSE i \in 1..Len(a) :
                  a[i] # b[i] /\ \A k \in (i + 1)..Len(a) : a[k] = b[k], LAMBDA i :
         IF a[i] < b[i] THEN -1 ELSE 1)

\* a * k for 0 <= k < LimbBase: the low halves of the limb products plus
\* their high halves one limb up
BigMulSmall(a, k) ==
    BigAdd([i \in 1..Len(a) |-> (a[i] * k) % LimbBase] \o <<>>,
           <<0>> \o [i \in 1..Len(a) |-> (a[i] * k) \div LimbBase])

Zeros(w) == [i \in 1..w |-> 0]

\* a * b, one limb of b at a time
RECURSIVE BigMulLoop(_, _, _, _)
BigMulLoop(a, b, i, acc) ==
    IF i > Len(b) THEN acc
    ELSE With(BigAdd(acc, Zeros(i - 1) \o BigMulSmall(a, b[i])), LAMBDA sum :
         BigMulLoop(a, b, i + 1, sum))

BigMul(a, b) == BigMulLoop(a, b, 1, <<>>)

\* a * 2^n
BigShl(a, n) ==
    With2(n \div LimbBits, n % LimbBits, LAMBDA w, r :
    BigTrim(Zeros(w) \o
            [i \in 1..(Len(a) + 1) |->
                ((Limb(a, i) * 2^r) % LimbBase)
                + (Limb(a, i - 1) \div 2^(LimbBits - r))]))

\* a div 2^n
BigShr(a, n) ==
    With2(n \div LimbBits, n % LimbBits, LAMBDA w, r :
    BigTrim([i \in 1..(Len(a) - w) |->
                (Limb(a, i + w) \div 2^r)
                + ((Limb(a, i + w + 1) % 2^r) * 2^(LimbBits - r))] \o <<>>))

\* bit j of a, bit 0 the least significant
BigBit(a, j) == IF j < 0 THEN 0 ELSE (Limb(a, (j \div LimbBits) + 1) \div 2^(j % LimbBits)) % 2

\* a mod 2^n = 0
BigLowZero(a, n) ==
    \/ n <= 0
    \/ /\ \A i \in 1..Min(n \div LimbBits, Len(a)) : a[i] = 0
       /\ Limb(a, (n \div LimbBits) + 1) % 2^(n % LimbBits) = 0

\* the number of bits of 0 <= k < 2^31
BitLength(k) == Cardinality({n \in 0..30 : 2^n <= k})

BigBitLen(a) ==
    IF a = <<>> THEN 0 ELSE LimbBits * (Len(a) - 1) + BitLength(a[Len(a)])

\* the number of trailing zero bits of 0 < k < 2^31
TrailingZeros(k) == Cardinality({n \in 1..30 : k % 2^n = 0})

\* the number of trailing zero bits of a # 0
BigTrailingZeros(a) ==
    With(CHOOSE i \in 1..Len(a) : a[i] # 0 /\ \A k \in 1..(i - 1) : a[k] = 0, LAMBDA i :
    LimbBits * (i - 1) + TrailingZeros(a[i]))

\* the quotient limb of rem by d, for rem < d * LimbBase and d's top limb
\* at least LimbBase/2: an estimate from the top limbs, lowered until it fits
RECURSIVE BigFitLimb(_, _, _)
BigFitLimb(rem, d, qhat) ==
    IF BigCmp(BigMulSmall(d, qhat), rem) > 0 THEN BigFitLimb(rem, d, qhat - 1)
    ELSE qhat

BigQuotLimb(rem, d) ==
    IF BigCmp(rem, d) < 0 THEN 0
    ELSE BigFitLimb(rem, d,
             Min(LimbBase - 1,
                 (Limb(rem, Len(d) + 1) * LimbBase + rem[Len(d)]) \div d[Len(d)]))

\* one step of the long division of n by d: limb i of n is brought down to
\* the remainder st[2] and the quotient limb put in front of st[1]
BigDivStep(n, d, i, st) ==
    With(BigTrim(<<n[i]>> \o st[2]), LAMBDA r1 :
    With(BigQuotLimb(r1, d), LAMBDA qd :
    <<<<qd>> \o st[1], IF qd = 0 THEN r1 ELSE BigSub(r1, BigMulSmall(d, qd))>>))

\* the steps for limbs i down to j; a range of several limbs is run as its
\* two halves, one after the other
RECURSIVE BigDivLoop(_, _, _, _, _)
BigDivLoop(n, d, i, j, st) ==
    IF i = j THEN BigDivStep(n, d, i, st)
    ELSE With(BigDivLoop(n, d, i, ((i + j) \div 2) + 1, st), LAMBDA half :
         BigDivLoop(n, d, (i + j) \div 2, j, half))

\* <<quotient, remainder>> of n by d, for n # 0 and d # 0
BigDivMod(n, d) ==
    With(LimbBits - BitLength(d[Len(d)]), LAMBDA sh :
    With2(BigShl(n, sh), BigShl(d, sh), LAMBDA ns, ds :
    With(BigDivLoop(ns, ds, Len(ns), 1, <<<<>>, <<>>>>), LAMBDA qr :
    <<BigTrim(qr[1]), BigShr(qr[2], sh)>>)))

(***************************************************************************)
(* float64.  A finite non-zero value is <<s, m, e>>: sign s in {1, -1},    *)
(* m an odd natural below 2^53 (limbs as above) and the value s * m * 2^e. *)
(* Zero is <<0, <<>>, 0>>; NaN, +inf and -inf are <<0, <<>>, 1>>,          *)
(* <<1, <<>>, 1>> and <<-1, <<>>, 1>>.  Every operation rounds the exact   *)
(* result to the nearest value, ties to even, with gradual underflow and   *)
(* overflow to infinity.  The sign of a zero is not kept.                  *)
(***************************************************************************)
Zero == <<0, <<>>, 0>>

NaN == <<0, <<>>, 1>>

PosInf == <<1, <<>>, 1>>

NegInf == <<-1, <<>>, 1>>

isna(x) == x = NaN

IsInf(x) == x = PosInf \/ x = NegInf

IsFinite(x) == x[2] # <<>> \/ x = Zero

\* s * m * 2^e with sticky set when bits below m were already lost,
\* rounded to 53 significant bits and to the exponent range
Pack(s, m0, e, sticky) ==
    With(m0, LAMBDA m :
    IF m = <<>> THEN Zero
    ELSE With(Max(BigBitLen(m) - 53, -1074 - e), LAMBDA sh :
         With(IF sh <= 0 THEN m ELSE BigShr(m, sh), LAMBDA q :
         With(IF /\ sh >= 1
                 /\ BigBit(m, sh - 1) = 1
                 /\ \/ sticky
                    \/ ~BigLowZero(m, sh - 1)
                    \/ q # <<>> /\ q[1] % 2 = 1
              THEN BigAdd(q, <<1>>) ELSE q, LAMBDA r :
         With(IF sh <= 0 THEN e ELSE e + sh, LAMBDA e1 :
         IF r = <<>> THEN Zero
         ELSE IF e1 + BigBitLen(r) > 1024 THEN <<s, <<>>, 1>>
         ELSE With(BigTrailingZeros(r), LAMBDA tz :
              <<s, IF tz = 0 THEN r ELSE BigShr(r, tz), e1 + tz>>))))))

\* the float64 of an integer n, |n| < 2^31: exact
Num(n) ==
    IF n = 0 THEN Zero
    ELSE With(TrailingZeros(Abs(n)), LAMBDA tz :
         <<Sign(n), BigFromNat(Abs(n) \div 2^tz), tz>>)

FNeg(x) == <<-x[1], x[2], x[3]>>

FAbs(x) == <<Abs(x[1]), x[2], x[3]>>

FAdd(x0, y0) ==
    With2(x0, y0, LAMBDA x, y :
    IF isna(x) \/ isna(y) THEN NaN
    ELSE IF IsInf(x) THEN (IF IsInf(y) /\ y # x THEN NaN ELSE x)
    ELSE IF IsInf(y) THEN y
    ELSE IF x = Zero THEN y
    ELSE IF y = Zero THEN x
    ELSE With2(x[3] + BigBitLen(x[2]), y[3] + BigBitLen(y[2]), LAMBDA tx, ty :
         \* an operand more than 64 binary places below the other is rounded away
         IF tx - ty > 64 THEN x
         ELSE IF ty - tx > 64 THEN y
         ELSE With(Min(x[3], y[3]), LAMBDA e :
              With2(BigShl(x[2], x[3] - e), BigShl(y[2], y[3] - e), LAMBDA a, b :
              With(BigCmp(a, b), LAMBDA c :
              IF x[1] = y[1] THEN Pack(x[1], BigAdd(a, b), e, FALSE)
              ELSE IF c = 0 THEN Zero
              ELSE Pack(IF c > 0 THEN x[1] ELSE y[1],
                        BigSub(IF c > 0 THEN a ELSE b, IF c > 0 THEN b ELSE a),
                        e, FALSE))))))

FSub(x, y) == FAdd(x, FNeg(y))

FMul(x0, y0) ==
    With2(x0, y0, LAMBDA x, y :
    IF isna(x) \/ isna(y) THEN NaN
    ELSE IF IsInf(x) \/ IsInf(y)
    THEN (IF x = Zero \/ y = Zero THEN NaN ELSE <<x[1] * y[1], <<>>, 1>>)
    ELSE IF x = Zero \/ y = Zero THEN Zero
    ELSE Pack(x[1] * y[1], BigMul(x[2], y[2]), x[3] + y[3], FALSE))

\* x / y as numpy divides: x/0 is a signed infinity, 0/0 and inf/inf are NaN
FDiv(x0, y0) ==
    With2(x0, y0, LAMBDA x, y :
    IF isna(x) \/ isna(y) THEN NaN
    ELSE IF IsInf(x) THEN (IF IsInf(y) THEN NaN
                           ELSE <<x[1] * (IF y[1] < 0 THEN -1 ELSE 1), <<>>, 1>>)
    ELSE IF IsInf(y) THEN Zero
    ELSE IF y = Zero THEN (IF x = Zero THEN NaN ELSE <<x[1], <<>>, 1>>)
    ELSE IF x = Zero THEN Zero
    \* a power of two divides exactly; otherwise 56 quotient bits and a
    \* sticky remainder decide the rounding
    ELSE With(IF y[2] = <<1>> THEN 0
              ELSE 56 + BigBitLen(y[2]) - BigBitLen(x[2]), LAMBDA k :
         With(IF y[2] = <<1>> THEN <<x[2], <<>>>>
              ELSE BigDivMod(BigShl(x[2], k), y[2]), LAMBDA qr :
         Pack(x[1] * y[1], qr[1], x[3] - y[3] - k, qr[2] # <<>>))))

\* the float64 nearest to n/d
Float(n, d) == FDiv(Num(n), Num(d))

\* x < y; every comparison with NaN is False
FLt(x0, y0) ==
    With2(x0, y0, LAMBDA x, y :
    IF isna(x) \/ isna(y) THEN FALSE
    ELSE IF x = y THEN FALSE
    ELSE IF IsInf(x) THEN x = NegInf
    ELSE IF IsInf(y) THEN y = PosInf
    ELSE IF x[1] # y[1] THEN x[1] < y[1]
    ELSE With2(x[3] + BigBitLen(x[2]), y[3] + BigBitLen(y[2]), LAMBDA tx, ty :
         With(IF tx # ty THEN (IF tx < ty THEN -1 ELSE 1)
              ELSE With(Min(x[3], y[3]), LAMBDA e :
                        BigCmp(BigShl(x[2], x[3] - e), BigShl(y[2], y[3] - e))),
              LAMBDA c : IF x[1] > 0 THEN c < 0 ELSE c > 0)))

FGt(x, y) == FLt(y, x)

\* x >= y; False when either side is NaN
FGe(x0, y0) == With2(x0, y0, LAMBDA x, y : ~isna(x) /\ ~isna(y) /\ ~FLt(x, y))

(***************************************************************************)
(* Frames and series                                                       *)
(***************************************************************************)
\* the columns of the frame ticker.history returns, Date being its index
history_cols == <<"Open", "High", "Low", "Close", "Volume", "Dividends", "Stock Splits">>

numeric_cols == <<"Open", "High", "Low", "Close", "Volume">>

indicator_cols == <<"SMA_20", "EMA_20", "RSI_14", "MACD", "Return">>

Range(s) == {s[i] : i \in DOMAIN s}

\* data[col]
Column(df, col) == [i \in 1..Len(df) |-> df[i][col]] \o <<>>

\* data[col] = series (the column is added when the frame has none of the name)
Assign(df, col, series) ==
    [i \in 1..Len(df) |-> (col :> series[i]) @@ df[i]] \o <<>>

\* mutant of Filter: the selected rows are collected in reverse
FilterReversed(df, mask) ==
    With(SelectSeq([i \in 1..Len(df) |-> i], LAMBDA i : mask[i]), LAMBDA kept :
    [k \in 1..Len(kept) |-> df[kept[Len(kept) + 1 - k]]] \o <<>>)

\* the rows of df at the positions where mask is TRUE, in their order
Filter(df, mask) ==
    With(SelectSeq([i \in 1..Len(df) |-> i], LAMBDA i : mask[i]), LAMBDA kept :
    [k \in 1..Len(kept) |-> df[kept[k]]] \o <<>>)

\* Series.ffill: a missing value takes the nearest preceding non-missing one
ffill_series(s) ==
    [i \in 1..Len(s) |->
        IF \E j \in 1..i : ~isna(s[j])
        THEN s[CHOOSE j \in 1..i : ~isna(s[j]) /\ \A k \in (j + 1)..i : isna(s[k])]
        ELSE s[i]] \o <<>>

\* DataFrame.ffill over the columns cols, every column filled on its own.
\* Date is the index, and after reset_index a column of strings that is
\* never missing.
ffill_cols(df, cols) ==
    With([c \in cols |-> ffill_series(Column(df, c))], LAMBDA filled :
    [i \in 1..Len(df) |->
        [c \in DOMAIN df[i] |-> IF c \in cols THEN filled[c][i] ELSE df[i][c]]] \o <<>>)

\* mutant of ffill: only the price and volume columns are filled
ffill_numeric_only(df) ==
    IF df = <<>> THEN df ELSE ffill_cols(df, Range(numeric_cols) \cap DOMAIN df[1])

ffill(df) == IF df = <<>> THEN df ELSE ffill_cols(df, (DOMAIN df[1]) \ {"Date"})

\* the values drop_duplicates compares: every column, the index left out
RowValues(row) == [c \in (DOMAIN row) \ {"Date"} |-> row[c]]

\* DataFrame.duplicated(keep='first'): equal to an earlier row, NaN equal to NaN
duplicated(df) ==
    [i \in 1..Len(df) |->
        \E j \in 1..(i - 1) : RowValues(df[j]) = RowValues(df[i])]

\* mutant of drop_duplicates: only the first duplicated row is removed
drop_first_duplicate(df) ==
    LET dup == duplicated(df)
    IN Filter(df, [i \in 1..Len(df) |-> ~(dup[i] /\ \A j \in 1..(i - 1) : ~dup[j])])

drop_duplicates(df) ==
    LET dup == duplicated(df)
    IN Filter(df, [i \in 1..Len(df) |-> ~dup[i]])

(***************************************************************************)
(* Indicators (ta.trend, ta.momentum) and pct_change                       *)
(***************************************************************************)
\* BaseWindow._prep_values: the window functions are handed the values with
\* every infinity replaced by NaN
prep_values(s) == [i \in 1..Len(s) |-> IF IsInf(s[i]) THEN NaN ELSE s[i]] \o <<>>

\* pandas' roll_mean: a running sum with Kahan compensation, to which the
\* value entering the window is added and from which the one leaving it is
\* removed; missing values are not counted
add_mean(st, val) ==
    IF isna(val) THEN st
    ELSE With(FSub(val, st.compensation_add), LAMBDA y :
         With(FAdd(st.sum_x, y), LAMBDA t :
         [st EXCEPT
             !.nobs = @ + 1,
             !.compensation_add = FSub(FSub(t, st.sum_x), y),
             !.sum_x = t,
             !.neg_ct = IF val[1] < 0 THEN @ + 1 ELSE @,
             !.num_consecutive_same_value = IF val = st.prev_value THEN @ + 1 ELSE 1,
             !.prev_value = val]))

remove_mean(st, val) ==
    IF isna(val) THEN st
    ELSE With(FSub(FNeg(val), st.compensation_remove), LAMBDA y :
         With(FAdd(st.sum_x, y), LAMBDA t :
         [st EXCEPT
             !.nobs = @ - 1,
             !.compensation_remove = FSub(FSub(t, st.sum_x), y),
             !.sum_x = t,
             !.neg_ct = IF val[1] < 0 THEN @ - 1 ELSE @]))

calc_mean(st, minp) ==
    IF st.nobs >= minp /\ st.nobs > 0
    THEN With(FDiv(st.sum_x, Num(st.nobs)), LAMBDA result :
         IF st.num_consecutive_same_value >= st.nobs THEN st.prev_value
         ELSE IF st.neg_ct = 0 /\ FLt(result, Zero) THEN Zero
         ELSE IF st.neg_ct = st.nobs /\ FGt(result, Zero) THEN Zero
         ELSE result)
    ELSE NaN

\* one turn of the loop over the rows: the window moves on to row i and the
\* mean of what it holds is appended to the output
roll_step(values, window, minp, i, st) ==
    With(IF i > window THEN remove_mean(st, values[i - window]) ELSE st,
         LAMBDA removed :
    With(add_mean(removed, values[i]), LAMBDA added :
    [added EXCEPT !.output = Append(@, calc_mean(added, minp))]))

\* the loop over rows i..j; a range of several rows is run as its two
\* halves, one after the other
RECURSIVE roll_mean(_, _, _, _, _, _)
roll_mean(values, window, minp, i, j, st) ==
    IF i = j THEN roll_step(values, window, minp, i, st)
    ELSE With(roll_mean(values, window, minp, i, (i + j) \div 2, st), LAMBDA half :
         roll_mean(values, window, minp, ((i + j) \div 2) + 1, j, half))

\* series.rolling(window, min_periods=minp).mean()
rolling_mean(s, window, minp) ==
    IF s = <<>> THEN <<>>
    ELSE With(prep_values(s), LAMBDA values :
         roll_mean(values, window, minp, 1, Len(values),
                   [nobs |-> 0, sum_x |-> Zero, neg_ct |-> 0,
                    compensation_add |-> Zero, compensation_remove |-> Zero,
                    num_consecutive_same_value |-> 0, prev_value |-> values[1],
                    output |-> <<>>]).output)

\* mutant of sma_indicator: the mean of whatever the window holds (min_periods=1)
sma_indicator_partial(close, window) == rolling_mean(close, window, 1)

\* ta.trend.sma_indicator: rolling(window, min_periods=window).mean()
sma_indicator(close, window) == rolling_mean(close, window, window)

\* one turn of pandas' ewm loop for adjust=False, ignore_na=False: weighted
\* is the running mean, old_wt its weight, nobs the observations seen so far
ewm_step(cur, minp, alpha, old_wt_factor, st) ==
    With(IF isna(cur) THEN st.nobs ELSE st.nobs + 1, LAMBDA nobs :
    IF ~isna(st.weighted)
    THEN With(FMul(st.old_wt, old_wt_factor), LAMBDA old_wt :
         With(IF ~isna(cur) /\ st.weighted # cur
              THEN FDiv(FAdd(FMul(old_wt, st.weighted), FMul(alpha, cur)),
                        FAdd(old_wt, alpha))
              ELSE st.weighted, LAMBDA weighted :
         [weighted |-> weighted,
          old_wt |-> IF ~isna(cur) THEN Num(1) ELSE old_wt,
          nobs |-> nobs,
          output |-> Append(st.output, IF nobs >= minp THEN weighted ELSE NaN)]))
    ELSE [weighted |-> cur, old_wt |-> st.old_wt, nobs |-> nobs,
          output |-> Append(st.output, IF nobs >= minp THEN cur ELSE NaN)])

\* the loop over rows i..j; a range of several rows is run as its two
\* halves, one after the other
RECURSIVE ewm(_, _, _, _, _, _, _)
ewm(vals, minp, alpha, old_wt_factor, i, j, st) ==
    IF i = j THEN ewm_step(vals[i], minp, alpha, old_wt_factor, st)
    ELSE With(ewm(vals, minp, alpha, old_wt_factor, i, (i + j) \div 2, st), LAMBDA half :
         ewm(vals, minp, alpha, old_wt_factor, ((i + j) \div 2) + 1, j, half))

\* series.ewm(com=com, min_periods=minp, adjust=False).mean()
ewm_mean(s, com, minp) ==
    IF s = <<>> THEN <<>>
    ELSE With2(prep_values(s), FDiv(Num(1), FAdd(Num(1), com)), LAMBDA vals, alpha :
         With(IF isna(vals[1]) THEN 0 ELSE 1, LAMBDA nobs :
         With([weighted |-> vals[1], old_wt |-> Num(1), nobs |-> nobs,
               output |-> <<IF nobs >= minp THEN vals[1] ELSE NaN>>], LAMBDA first :
         IF Len(vals) = 1 THEN first.output
         ELSE ewm(vals, minp, alpha, FSub(Num(1), alpha), 2, Len(vals), first).output)))

\* pandas' get_center_of_mass for span= and for alpha=
com_of_span(span) == FDiv(FSub(Num(span), Num(1)), Num(2))

com_of_alpha(alpha0) == With(alpha0, LAMBDA alpha : FDiv(FSub(Num(1), alpha), alpha))

\* ta.trend.ema_indicator: ewm(span=window, min_periods=window, adjust=False)
ema_indicator(close, window) == ewm_mean(close, com_of_span(window), window)

\* series.diff(1)
diff(s) == [i \in 1..Len(s) |-> IF i = 1 THEN NaN ELSE FSub(s[i], s[i - 1])] \o <<>>

\* ta.momentum.rsi
rsi(close, window) ==
    With2(diff(close), com_of_alpha(FDiv(Num(1), Num(window))), LAMBDA d, com :
    With2([i \in 1..Len(d) |-> IF FGt(d[i], Zero) THEN d[i] ELSE Zero] \o <<>>,
          [i \in 1..Len(d) |-> IF FLt(d[i], Zero) THEN FNeg(d[i]) ELSE Zero] \o <<>>,
          LAMBDA up_direction, down_direction :
    With2(ewm_mean(up_direction, com, window), ewm_mean(down_direction, com, window),
          LAMBDA emaup, emadn :
    [i \in 1..Len(d) |->
        IF emadn[i] = Zero THEN Num(100)
        ELSE FSub(Num(100),
                  FDiv(Num(100), FAdd(Num(1), FDiv(emaup[i], emadn[i]))))] \o <<>>)))

\* ta.trend.macd: EMA(window_fast) - EMA(window_slow)
macd(close, window_slow, window_fast) ==
    With2(ema_indicator(close, window_fast), ema_indicator(close, window_slow),
          LAMBDA emafast, emaslow :
    [i \in 1..Len(close) |-> FSub(emafast[i], emaslow[i])] \o <<>>)

\* Series.pct_change(): values padded forward, then s / s.shift(1) - 1
pct_change(s) ==
    With(ffill_series(s), LAMBDA f :
    [i \in 1..Len(s) |->
        IF i = 1 THEN NaN ELSE FSub(FDiv(f[i], f[i - 1]), Num(1))] \o <<>>)

(***************************************************************************)
(* The fetched frame.  ticker.history returns one row per trading day,     *)
(* indexed by Date.  The frames explored are a regular series (price 20,   *)
(* a different volume every day, no dividend, no split) changed by at most *)
(* two edits.                                                              *)
(***************************************************************************)
MaxRows == 28

Timestamp(i) == [year |-> 2024, month |-> 1, day |-> i]

BaseRow(i) ==
    [Date |-> Timestamp(i), Open |-> Num(20), High |-> Num(20), Low |-> Num(20),
     Close |-> Num(20), Volume |-> Num(1000 + i), Dividends |-> Zero]
    @@ ("Stock Splits" :> Zero)

BaseFrame(n) == [i \in 1..n |-> BaseRow(i)] \o <<>>

\* one cell, a leading run of one column, or a row repeating its predecessor
Edits(n) ==
    [kind : {"cell"}, col : {"Close"}, pos : {n - 1, n},
     val : {NaN, Num(-1), Num(0), Num(18), Num(22), Num(23)}]
    \cup [kind : {"cell"}, col : {"Close"}, pos : {2}, val : {NaN, Num(0), Num(23)}]
    \cup [kind : {"cell"}, col : {"Open", "Volume"}, pos : {1}, val : {NaN, Num(-1)}]
    \cup [kind : {"cell"}, col : {"High", "Low"}, pos : {n}, val : {NaN, Num(-1)}]
    \cup [kind : {"cell"}, col : {"Dividends"}, pos : {2, n}, val : {Float(24, 100)}]
    \cup [kind : {"cell"}, col : {"Stock Splits"}, pos : {2}, val : {Num(4)}]
    \cup [kind : {"run"}, col : {"Open", "Close", "Volume"}, pos : {n - 1},
          val : {NaN, Num(-1)}]
    \cup [kind : {"same_date", "same_values", "same_row"}, col : {"Date"},
          pos : {2, n}, val : {NaN}]

ApplyEdit(df, e) ==
    [i \in 1..Len(df) |->
        IF e.kind = "cell" /\ i = e.pos THEN [df[i] EXCEPT ![e.col] = e.val]
        ELSE IF e.kind = "run" /\ i <= e.pos THEN [df[i] EXCEPT ![e.col] = e.val]
        ELSE IF e.kind = "same_date" /\ i = e.pos
             THEN [df[i] EXCEPT !.Date = df[i - 1].Date]
        ELSE IF e.kind = "same_values" /\ i = e.pos
             THEN [df[i - 1] EXCEPT !.Date = df[i].Date]
        ELSE IF e.kind = "same_row" /\ i = e.pos THEN df[i - 1]
        ELSE df[i]] \o <<>>

\* the frames one edit away from base, and those two edits away
OnceEdited(base) == {ApplyEdit(base, e) : e \in Edits(Len(base))}

TwiceEdited(base) ==
    {ApplyEdit(ApplyEdit(base, e1), e2) : e1, e2 \in Edits(Len(base))}

RawFrames ==
    {BaseFrame(MaxRows - 1), BaseFrame(MaxRows)}
    \cup OnceEdited(BaseFrame(MaxRows - 1))
    \cup OnceEdited(BaseFrame(MaxRows))
    \cup TwiceEdited(BaseFrame(MaxRows))

(***************************************************************************)
(* The statements of the script                                            *)
(***************************************************************************)
\* Timestamp.strftime('%Y-%m-%d')
Pad(n, width) ==
    IF n < 10 /\ width >= 2 THEN "0" \o ToString(n) ELSE ToString(n)

strftime(ts) ==
    ToString(ts.year) \o "-" \o Pad(ts.month, 2) \o "-" \o Pad(ts.day, 2)

\* lambda x: x if x >= 0 else None
keep_non_negative(x) == IF FGe(x, Zero) THEN x ELSE NaN

\* for col in numeric_cols: data[col] = data[col].apply(lambda ...)
replace_negatives(df) ==
    [i \in 1..Len(df) |->
        [c \in DOMAIN df[i] |->
            IF c \in Range(numeric_cols) THEN keep_non_negative(df[i][c])
            ELSE df[i][c]]] \o <<>>

\* the columns for which (data[col] < 0).any()
negative_cols(df) ==
    {c \in Range(numeric_cols) : \E i \in 1..Len(df) : FLt(df[i][c], Zero)}

\* mutant of sanitize_negatives: the negatives are blanked and not filled
sanitize_negatives_unfilled(df) == replace_negatives(df)

sanitize_negatives(df) == ffill(replace_negatives(df))

\* mutant of dropna: a row goes only when all of cols are missing (how='all')
dropna_all(df, cols) ==
    Filter(df, [i \in 1..Len(df) |-> \E c \in Range(cols) : ~isna(df[i][c])])

\* data.dropna(subset=cols): a row goes when any of cols is missing in it
dropna(df, cols) ==
    Filter(df, [i \in 1..Len(df) |-> \A c \in Range(cols) : ~isna(df[i][c])])

\* mutant of select_outliers: the sign of the return is not dropped
select_outliers_signed(df) ==
    Filter(df, [i \in 1..Len(df) |-> FGt(df[i].Return, Float(10, 100))])

\* data[abs(data['Return']) > 0.10]
select_outliers(df) ==
    Filter(df, [i \in 1..Len(df) |-> FGt(FAbs(df[i].Return), Float(10, 100))])

compute_indicators(df) ==
    With(Assign(df, "SMA_20", sma_indicator(Column(df, "Close"), 20)), LAMBDA d1 :
    With(Assign(d1, "EMA_20", ema_indicator(Column(d1, "Close"), 20)), LAMBDA d2 :
    With(Assign(d2, "RSI_14", rsi(Column(d2, "Close"), 14)), LAMBDA d3 :
    With(Assign(d3, "MACD", macd(Column(d3, "Close"), 26, 12)), LAMBDA d4 :
    Assign(d4, "Return", pct_change(Column(d4, "Close")))))))

\* reset_index, then Date as ISO text
format_dates(df) ==
    [i \in 1..Len(df) |-> [df[i] EXCEPT !.Date = strftime(df[i].Date)]] \o <<>>

Init ==
    /\ pc = "history"
    /\ data = <<>>
    /\ curated_csv = <<>>
    /\ clean_csv = <<>>
    /\ outliers = <<>>
    /\ warnings = {}
    /\ history = <<>>

Fetch ==
    /\ pc = "history"
    /\ \E raw \in RawFrames : data' = raw /\ history' = raw
    /\ pc' = "drop_duplicates"
    /\ UNCHANGED <<curated_csv, clean_csv, outliers, warnings>>

DropDuplicates ==
    /\ pc = "drop_duplicates"
    /\ data' = drop_duplicates(data)
    /\ pc' = "ffill"
    /\ UNCHANGED <<curated_csv, clean_csv, outliers, warnings, history>>

ForwardFill ==
    /\ pc = "ffill"
    /\ data' = ffill(data)
    /\ pc' = "indicators"
    /\ UNCHANGED <<curated_csv, clean_csv, outliers, warnings, history>>

ComputeIndicators ==
    /\ pc = "indicators"
    /\ data' = compute_indicators(data)
    /\ pc' = "to_csv"
    /\ UNCHANGED <<curated_csv, clean_csv, outliers, warnings, history>>

ExportCurated ==
    /\ pc = "to_csv"
    /\ data' = format_dates(data)
    /\ curated_csv' = format_dates(data)
    /\ pc' = "sanitize"
    /\ UNCHANGED <<clean_csv, outliers, warnings, history>>

SanitizeNegatives ==
    /\ pc = "sanitize"
    /\ warnings' = negative_cols(data)
    /\ data' = sanitize_negatives(data)
    /\ pc' = "dropna"
    /\ UNCHANGED <<curated_csv, clean_csv, outliers, history>>

DropIncomplete ==
    /\ pc = "dropna"
    /\ data' = dropna(data, indicator_cols)
    /\ pc' = "to_csv_clean"
    /\ UNCHANGED <<curated_csv, clean_csv, outliers, warnings, history>>

ExportClean ==
    /\ pc = "to_csv_clean"
    /\ clean_csv' = data
    /\ pc' = "outliers"
    /\ UNCHANGED <<data, curated_csv, outliers, warnings, history>>

SelectOutliers ==
    /\ pc = "outliers"
    /\ outliers' = select_outliers(data)
    /\ pc' = "done"
    /\ UNCHANGED <<data, curated_csv, clean_csv, warnings, history>>

Next ==
    \/ Fetch
    \/ DropDuplicates
    \/ ForwardFill
    \/ ComputeIndicators
    \/ ExportCurated
    \/ SanitizeNegatives
    \/ DropIncomplete
    \/ ExportClean
    \/ SelectOutliers

Spec == Init /\ [][Next]_vars

(***************************************************************************)
(* The indicators on a constant-price series: the frame handed to the      *)
(* indicator block holds the same close on every day.                      *)
(***************************************************************************)
ConstantFrame(n, c) ==
    [i \in 1..n |->
        [BaseRow(i) EXCEPT !.Open = c, !.High = c, !.Low = c, !.Close = c]] \o <<>>

InitWindow ==
    /\ pc = "indicators"
    /\ \E n \in 20..MaxRows, k \in 0..12 :
          /\ data = ConstantFrame(n, Float(k, 10))
          /\ history = ConstantFrame(n, Float(k, 10))
    /\ curated_csv = <<>>
    /\ clean_csv = <<>>
    /\ outliers = <<>>
    /\ warnings = {}

NextWindow == ComputeIndicators

SpecWindow == InitWindow /\ [][NextWindow]_vars

(***************************************************************************)
(* Properties                                                              *)
(***************************************************************************)
Dates(df) == [i \in 1..Len(df) |-> df[i].Date]

\* s is t with some elements left out, the order kept
RECURSIVE IsSubseqFrom(_, _, _, _)
IsSubseqFrom(s, t, i, j) ==
    IF i > Len(s) THEN TRUE
    ELSE IF j > Len(t) THEN FALSE
    ELSE IF s[i] = t[j] THEN IsSubseqFrom(s, t, i + 1, j + 1)
    ELSE IsSubseqFrom(s, t, i, j + 1)

IsSubseq(s, t) == IsSubseqFrom(s, t, 1, 1)

Present(row) == ~isna(row.SMA_20) /\ ~isna(row.EMA_20) /\ ~isna(row.RSI_14)
                /\ ~isna(row.MACD) /\ ~isna(row.Return)

\* C1: after sanitize_negatives every Open/High/Low/Close/Volume value is
\* >= 0, or it is missing and no earlier row holds a non-missing,
\* non-negative value of that column (neither in the frame sanitised, which
\* is the one written to the curated file, nor in the result).
C1_NoNegativeSurvives ==
    pc = "dropna" =>
        \A i \in 1..Len(data) : \A c \in Range(numeric_cols) :
            \/ FGe(data[i][c], Zero)
            \/ /\ isna(data[i][c])
               /\ \A j \in 1..(i - 1) :
                     isna(data[j][c]) /\ ~FGe(curated_csv[j][c], Zero)

\* a negative in the first row stays missing, a later one is filled
C1_Witness ==
    /\ pc = "dropna"
    /\ \E c \in Range(numeric_cols) :
          FLt(curated_csv[1][c], Zero) /\ isna(data[1][c])
    /\ \E c \in Range(numeric_cols) : \E i \in 2..Len(data) :
          FLt(curated_csv[i][c], Zero) /\ FGe(data[i][c], Zero)

\* the rows whose date does not occur earlier in the frame
FirstOfDate(df) ==
    SelectSeq([i \in 1..Len(df) |-> <<i, df[i]>>],
              LAMBDA p : \A j \in 1..(p[1] - 1) : df[j].Date # p[2].Date)

\* C2: deduplicate removes exactly the rows whose date equals the date of
\* an earlier row: no two rows of the result share a date, and every row
\* whose date does not occur earlier is kept.
C2_DeduplicateByDate ==
    [][pc = "drop_duplicates" =>
          data' = [i \in 1..Len(FirstOfDate(data)) |-> FirstOfDate(data)[i][2]]]_vars

\* C3: drop_incomplete removes a row exactly when one of its five derived
\* fields is missing, so every remaining row has all five present.
C3_DropIncomplete ==
    [][pc = "dropna" =>
          /\ data' = SelectSeq(data, Present)
          /\ \A i \in 1..Len(data') : Present(data'[i])]_vars

\* some rows were removed, some kept
C3_Witness ==
    /\ pc = "to_csv_clean"
    /\ Len(data) > 0
    /\ Len(data) < Len(curated_csv)

\* C4: every row of the cleaned series holds a value in each of Open, High,
\* Low, Close and Volume.
C4_NoGapLeft ==
    pc = "done" =>
        \A i \in 1..Len(clean_csv) : \A c \in Range(numeric_cols) :
            ~isna(clean_csv[i][c])

\* the daily return of row i over the closes of df
DailyReturn(df, i) == FDiv(FSub(df[i].Close, df[i - 1].Close), df[i - 1].Close)

\* C5 as stated: a day whose return over the closes is 0.15 is in the
\* outlier subset wherever it lies in the series, and no day whose absolute
\* return over the closes is 0.10 or less is in it.
C5_OutliersAtAnyPosition ==
    pc = "done" =>
        \A i \in 2..Len(curated_csv) :
            /\ DailyReturn(curated_csv, i) = Float(15, 100)
                  => curated_csv[i].Date \in Range(Dates(outliers))
            /\ FGe(Float(10, 100), FAbs(DailyReturn(curated_csv, i)))
                  => curated_csv[i].Date \notin Range(Dates(outliers))

\* C5 as amended: the outlier subset is the rows of the cleaned series, in
\* their order, whose Return field exceeds 0.10 in absolute value; a day
\* with return 0.15 is in it exactly when drop_incomplete kept its row.
C5_OutliersOfCleaned ==
    pc = "done" =>
        /\ IsSubseq(outliers, data)
        /\ \A i \in 1..Len(data) :
              (\E j \in 1..Len(outliers) : outliers[j] = data[i])
                  <=> FGt(FAbs(data[i].Return), Float(10, 100))
        /\ \A i \in 2..Len(curated_csv) :
              DailyReturn(curated_csv, i) = Float(15, 100) =>
                  (curated_csv[i].Date \in Range(Dates(outliers))
                      <=> curated_csv[i].Date \in Range(Dates(data)))

\* one 0.15 day survives and is listed, another lies in the warm-up and is not
C5_Witness ==
    /\ pc = "done"
    /\ \E i \in 2..Len(curated_csv) :
          /\ DailyReturn(curated_csv, i) = Float(15, 100)
          /\ curated_csv[i].Date \in Range(Dates(outliers))
    /\ \E i \in 2..Len(curated_csv) :
          /\ DailyReturn(curated_csv, i) = Float(15, 100)
          /\ curated_csv[i].Date \notin Range(Dates(outliers))

\* C6: on a constant close c, SMA_20 and EMA_20 are missing on the first 19
\* rows and equal c on every row from the 20th on.
C6_WindowCorrectness ==
    pc = "to_csv" =>
        \A i \in 1..Len(data) :
            IF i < 20
            THEN isna(data[i].SMA_20) /\ isna(data[i].EMA_20)
            ELSE data[i].SMA_20 = data[i].Close /\ data[i].EMA_20 = data[i].Close

C6_Witness ==
    /\ pc = "to_csv"
    /\ Len(data) > 20
    /\ data[Len(data)].Close = Float(11, 10)
    /\ data[Len(data)].SMA_20 = Float(11, 10)
    /\ data[Len(data)].EMA_20 = Float(11, 10)
    /\ isna(data[19].EMA_20)

\* C7: deduplicate applied to its own result changes nothing.
C7_DeduplicateIdempotent ==
    pc = "ffill" => drop_duplicates(data) = data

\* rows were removed by the first application
C7_Witness ==
    /\ pc = "ffill"
    /\ Len(data) + 2 = Len(history)

\* C8: the dates of the clean file are a subsequence of the dates of the
\* curated file, which are a subsequence of the dates fetched.
C8_FilesKeepOrder ==
    pc \in {"outliers", "done"} =>
        /\ IsSubseq(Dates(clean_csv), Dates(curated_csv))
        /\ IsSubseq(Dates(curated_csv), Dates(format_dates(history)))
        /\ IsSubseq(Dates(clean_csv), Dates(format_dates(history)))
        /\ Len(clean_csv) <= Len(curated_csv)

C8_Witness ==
    /\ pc = "done"
    /\ Len(clean_csv) > 1
    /\ Len(clean_csv) < Len(curated_csv)
    /\ Len(curated_csv) < Len(history)

\* C9: in the frame handed to drop_incomplete, every row that is kept and
\* has a predecessor carries the Return of its own Close over the Close of
\* the row before it.
C9_ReturnOfEmittedClose ==
    pc = "dropna" =>
        \A i \in 2..Len(data) :
            Present(data[i]) =>
                data[i].Return = FSub(FDiv(data[i].Close, data[i - 1].Close), Num(1))

\* C10: the rows drop_incomplete removes are a prefix: what remains is a
\* suffix of the frame it was given.
C10_DropsAPrefix ==
    [][pc = "dropna" =>
          \E k \in 0..Len(data) : data' = SubSeq(data, k + 1, Len(data))]_vars

\* a Return that was missing in mid-series was filled and its row kept
C10_Witness ==
    /\ pc = "to_csv_clean"
    /\ \E i \in 2..Len(curated_csv) :
          /\ isna(curated_csv[i].Return)
          /\ Present(curated_csv[i - 1])
          /\ curated_csv[i].Date \in Range(Dates(data))

====
